---- MODULE Spec2Model ----
(***************************************************************************)
(* Model of src/worker.js: the request/response rewriting pipeline of the  *)
(* proxy worker.  One execution of handleRequest is one behaviour: the     *)
(* synchronous prefix up to the origin fetch, the await of fetch(), the    *)
(* dispatch on the origin response (redirect, text/html, passthrough) and  *)
(* the await of response.text() on the HTML path.                          *)
(*                                                                         *)
(* JavaScript strings are TLA+ strings; a character is a substring of      *)
(* length one.  The alphabet is printable ASCII.                           *)
(***************************************************************************)
EXTENDS Integers, Sequences, FiniteSets, TLC

(***************************************************************************)
(* Bounds of the model.                                                    *)
(***************************************************************************)
\* most Set-Cookie headers on one origin response
MaxCookies == 2
\* most markup fragments in one origin body
MaxFrags == 2

(***************************************************************************)
(* String primitives of the language runtime.                              *)
(***************************************************************************)
CharAt(s, i) == SubSeq(s, i, i)

StartsWithAt(s, p, i) ==
    /\ i >= 1
    /\ i + Len(p) - 1 <= Len(s)
    /\ SubSeq(s, i, i + Len(p) - 1) = p

startsWith(s, p) == StartsWithAt(s, p, 1)

includes(s, p) == \E i \in 1..(Len(s) - Len(p) + 1) : StartsWithAt(s, p, i)

\* String.prototype.slice(from) with a 0-based index
slice(s, from) == SubSeq(s, from + 1, Len(s))

CharsOf(s) == { CharAt(s, i) : i \in 1..Len(s) }

\* position of the first character of s, at or after i, that lies in cs
\* (Len(s) + 1 when there is none)
FirstOf(s, cs, i) ==
    LET hits == { j \in i..Len(s) : CharAt(s, j) \in cs }
    IN  IF hits = {} THEN Len(s) + 1
        ELSE CHOOSE j \in hits : \A k \in hits : j <= k

\* position of the last character of s that lies in cs (0 when none)
LastOf(s, cs) ==
    LET hits == { j \in 1..Len(s) : CharAt(s, j) \in cs }
    IN  IF hits = {} THEN 0
        ELSE CHOOSE j \in hits : \A k \in hits : j >= k

\* number of places where p occurs in s
CountOcc(s, p) == Cardinality({ i \in 1..Len(s) : StartsWithAt(s, p, i) })

Upper == "ABCDEFGHIJKLMNOPQRSTUVWXYZ"
Lower == "abcdefghijklmnopqrstuvwxyz"
Digits == "0123456789"
HexDigits == "0123456789ABCDEF"
\* printable ASCII in two runs: codes 32..95 and codes 97..126 (code 96, the
\* backquote, cannot be written in a TLA+ string and is left out of the alphabet)
AsciiLo == " !\"#$%&'()*+,-./0123456789:;<=>?@ABCDEFGHIJKLMNOPQRSTUVWXYZ[\\]^_"
AsciiHi == "abcdefghijklmnopqrstuvwxyz{|}~"

IndexIn(tbl, c) ==
    IF c \in CharsOf(tbl) THEN CHOOSE i \in 1..Len(tbl) : CharAt(tbl, i) = c ELSE 0

CodeOf(c) ==
    IF c \in CharsOf(AsciiLo) THEN IndexIn(AsciiLo, c) + 31 ELSE IndexIn(AsciiHi, c) + 96

\* stands for one decoded code point outside the alphabet
NonAscii == "?"

CharOf(b) ==
    IF b >= 32 /\ b <= 95 THEN CharAt(AsciiLo, b - 31)
    ELSE IF b >= 97 /\ b <= 126 THEN CharAt(AsciiHi, b - 96)
    ELSE NonAscii

\* the alphabet
Chars == CharsOf(AsciiLo) \cup CharsOf(AsciiHi)

LowerTable ==
    [ c \in Chars |->
        IF c \in CharsOf(Upper) THEN CharAt(Lower, IndexIn(Upper, c)) ELSE c ]

LowerChar(c) == LowerTable[c]

RECURSIVE toLowerCase(_)
toLowerCase(s) ==
    IF s = "" THEN "" ELSE LowerChar(Head(s)) \o toLowerCase(Tail(s))

\* characters encodeURIComponent leaves alone
Unreserved == CharsOf(Upper) \cup CharsOf(Lower) \cup CharsOf(Digits) \cup CharsOf("-_.!~*'()")

EncodeTable ==
    [ c \in Chars |->
        IF c \in Unreserved THEN c
        ELSE "%" \o CharAt(HexDigits, (CodeOf(c) \div 16) + 1)
                 \o CharAt(HexDigits, (CodeOf(c) % 16) + 1) ]

EncodeChar(c) == EncodeTable[c]

RECURSIVE encodeURIComponent(_)
encodeURIComponent(s) ==
    IF s = "" THEN "" ELSE EncodeChar(Head(s)) \o encodeURIComponent(Tail(s))

\* value of one hex digit, -1 for any other character
HexTable ==
    [ c \in Chars |->
        IF c \in CharsOf(HexDigits) THEN IndexIn(HexDigits, c) - 1
        ELSE IF c \in CharsOf("abcdef") THEN IndexIn("abcdef", c) + 9
        ELSE -1 ]

HexVal(c) == HexTable[c]

\* the byte of the escape %XX at position i of s, -1 when there is no escape
EscapeAt(s, i) ==
    IF /\ i + 2 <= Len(s)
       /\ CharAt(s, i) = "%"
       /\ HexVal(CharAt(s, i + 1)) >= 0
       /\ HexVal(CharAt(s, i + 2)) >= 0
    THEN 16 * HexVal(CharAt(s, i + 1)) + HexVal(CharAt(s, i + 2))
    ELSE -1

\* number of continuation bytes a UTF-8 lead byte announces, -1 for a byte
\* that cannot lead
Continuations(b) ==
    IF b < 128 THEN 0
    ELSE IF b >= 194 /\ b <= 223 THEN 1
    ELSE IF b >= 224 /\ b <= 239 THEN 2
    ELSE IF b >= 240 /\ b <= 244 THEN 3
    ELSE -1

\* decodeURIComponent from position i of s: [ok, value]; ok = FALSE is the
\* URIError of a malformed escape or of an escape sequence that is not UTF-8
RECURSIVE DecodeFrom(_, _)
DecodeFrom(s, i) ==
    IF i > Len(s) THEN [ok |-> TRUE, value |-> ""]
    ELSE IF CharAt(s, i) # "%" THEN
        LET r == DecodeFrom(s, i + 1)
        IN  [ok |-> r.ok, value |-> CharAt(s, i) \o r.value]
    ELSE
        LET b == EscapeAt(s, i)
            n == Continuations(b)
            tailOk == \A k \in 1..n :
                          /\ EscapeAt(s, i + 3 * k) >= 128
                          /\ EscapeAt(s, i + 3 * k) <= 191
        IN  IF b < 0 \/ n < 0 \/ ~tailOk THEN [ok |-> FALSE, value |-> ""]
            ELSE LET r == DecodeFrom(s, i + 3 * (n + 1))
                     c == CharOf(b)
                 IN  [ok |-> r.ok, value |-> c \o r.value]

decodeURIComponent(s) == DecodeFrom(s, 1)

(***************************************************************************)
(* URL: the parser behind new URL(str) and new URL(ref, base), for the     *)
(* http and https schemes.  Not modelled: user info aside from its removal,*)
(* IPv6 literals, dot segments and the escaping of path characters; no     *)
(* input of the model has any.                                             *)
(***************************************************************************)
ForbiddenHostChars == CharsOf(" #/:<>?@[\\]^|%")
DigitChars == CharsOf(Digits)

DefaultPort(protocol) == IF protocol = "https:" THEN "443" ELSE "80"

HasHttpScheme(s) == startsWith(s, "http://") \/ startsWith(s, "https://")

\* first position at or after i whose character is not a slash
SkipSlashes(s, i) ==
    LET rest == { j \in i..Len(s) : CharAt(s, j) \notin {"/", "\\"} }
    IN  IF rest = {} THEN Len(s) + 1
        ELSE CHOOSE j \in rest : \A k \in rest : j <= k

\* new URL(s) for a string with an http(s) scheme; ok = FALSE is the TypeError
ParseUrl(s) ==
    LET protocol == IF startsWith(s, "https://") THEN "https:" ELSE "http:"
        a == SkipSlashes(s, Len(protocol) + 1)
        e == FirstOf(s, {"/", "\\", "?", "#"}, a)
        authority == SubSeq(s, a, e - 1)
        hostport == SubSeq(authority, LastOf(authority, {"@"}) + 1, Len(authority))
        colon == FirstOf(hostport, {":"}, 1)
        hostname == toLowerCase(SubSeq(hostport, 1, colon - 1))
        portStr == SubSeq(hostport, colon + 1, Len(hostport))
        q == FirstOf(s, {"?", "#"}, e)
        h == FirstOf(s, {"#"}, e)
        rawPath == SubSeq(s, e, q - 1)
    IN  [ ok |-> /\ HasHttpScheme(s)
                 /\ hostname # ""
                 /\ CharsOf(hostname) \cap ForbiddenHostChars = {}
                 /\ CharsOf(portStr) \subseteq DigitChars,
          protocol |-> protocol,
          hostname |-> hostname,
          port |-> IF portStr = DefaultPort(protocol) THEN "" ELSE portStr,
          pathname |-> IF rawPath = "" THEN "/" ELSE rawPath,
          query |-> SubSeq(s, q, h - 1),
          fragment |-> SubSeq(s, h, Len(s)) ]

\* URL.host, URL.origin, URL.search, URL.href (= toString())
Host(u) == IF u.port = "" THEN u.hostname ELSE u.hostname \o ":" \o u.port
Origin(u) == u.protocol \o "//" \o Host(u)
Search(u) == IF u.query = "?" THEN "" ELSE u.query
Href(u) == Origin(u) \o u.pathname \o u.query \o u.fragment

\* new URL(ref, base), base a parsed URL
ResolveUrl(ref, base) ==
    IF HasHttpScheme(ref) THEN ParseUrl(ref)
    ELSE IF startsWith(ref, "//") THEN ParseUrl(base.protocol \o ref)
    ELSE IF startsWith(ref, "/") THEN ParseUrl(Origin(base) \o ref)
    ELSE IF startsWith(ref, "?") THEN ParseUrl(Origin(base) \o base.pathname \o ref)
    ELSE IF startsWith(ref, "#") THEN
        ParseUrl(Origin(base) \o base.pathname \o base.query \o ref)
    ELSE IF ref = "" THEN ParseUrl(Origin(base) \o base.pathname \o base.query)
    ELSE ParseUrl(Origin(base)
                  \o SubSeq(base.pathname, 1, LastOf(base.pathname, {"/"}))
                  \o ref)

(***************************************************************************)
(* Headers: a list of [name, value] with lower-case names, as the Headers  *)
(* class keeps them.  A missing value (null) is None.                      *)
(***************************************************************************)
None == [has |-> FALSE, v |-> ""]
Some(v) == [has |-> TRUE, v |-> v]

Hdr(name, value) == [name |-> toLowerCase(name), value |-> value]

\* Headers.getAll(name): every value under the name, in order
HGetAll(h, name) ==
    LET n == toLowerCase(name)
        RECURSIVE vals(_)
        vals(i) == IF i > Len(h) THEN <<>>
                   ELSE IF h[i].name = n THEN <<h[i].value>> \o vals(i + 1)
                   ELSE vals(i + 1)
    IN  vals(1)

RECURSIVE JoinComma(_)
JoinComma(vs) ==
    IF Len(vs) = 1 THEN vs[1] ELSE vs[1] \o ", " \o JoinComma(Tail(vs))

\* Headers.get(name): null, or the values joined by ", "
HGet(h, name) ==
    LET vs == HGetAll(h, name)
    IN  IF vs = <<>> THEN None ELSE Some(JoinComma(vs))

HHas(h, name) == HGetAll(h, name) # <<>>

\* Headers.delete(name)
HDelete(h, name) == SelectSeq(h, LAMBDA e : e.name # toLowerCase(name))

\* Headers.append(name, value)
HAppend(h, name, value) == Append(h, Hdr(name, value))

\* Headers.set(name, value): the first entry of the name takes the value, the
\* others go; a new name is appended
HSet(h, name, value) ==
    LET n == toLowerCase(name)
        at == { i \in 1..Len(h) : h[i].name = n }
    IN  IF at = {} THEN Append(h, Hdr(name, value))
        ELSE LET first == CHOOSE i \in at : \A j \in at : i <= j
             IN  SubSeq(h, 1, first - 1)
                 \o <<Hdr(name, value)>>
                 \o HDelete(SubSeq(h, first + 1, Len(h)), name)

(***************************************************************************)
(* The worker's constants and pure functions.                              *)
(***************************************************************************)
PROXY_DOMAIN == ""

\* the own keys of the object literal specialCases and their rule lists
specialCases ==
    [ k \in {"i.pximg.net", "i-cf.pximg.net", "*"} |->
        IF k = "*"
        THEN << [key |-> "Origin", value |-> "DELETE"],
                [key |-> "Referer", value |-> "DELETE"] >>
        ELSE << [key |-> "Origin", value |-> "DELETE"],
                [key |-> "Referer", value |-> "https://www.pixiv.net/"] >> ]

\* specialCases is a plain object: a property read that finds no own key goes
\* on to Object.prototype.  These inherited names are lower case, so a URL
\* host name can spell them; their values are truthy and have no enumerable
\* own property
ObjectPrototypeKeys == {"constructor", "__proto__"}

\* Object.entries(specialCases[hostname] || specialCases["*"])
RulesFor(hostname) ==
    IF hostname \in DOMAIN specialCases THEN specialCases[hostname]
    ELSE IF hostname \in ObjectPrototypeKeys THEN <<>>
    ELSE specialCases["*"]

ApplyRule(headers, rule) ==
    IF rule.value = "KEEP" THEN headers
    ELSE IF rule.value = "DELETE" THEN HDelete(headers, rule.key)
    ELSE HSet(headers, rule.key, rule.value)

RECURSIVE ApplyRules(_, _)
ApplyRules(headers, rules) ==
    IF rules = <<>> THEN headers
    ELSE ApplyRules(ApplyRule(headers, Head(rules)), Tail(rules))

\* handleSpecialCases(request): the request with its headers rewritten
handleSpecialCases(req) ==
    [req EXCEPT !.headers = ApplyRules(req.headers, RulesFor(ParseUrl(req.url).hostname))]

\* cookie.replace(/domain=[^;]+/i, "domain=" + PROXY_DOMAIN): the first place
\* where domain= is followed by a character other than ';' is replaced up to
\* the next ';'; without such a place the cookie is unchanged
ReplaceDomain(cookie) ==
    LET low == toLowerCase(cookie)
        at == { i \in 1..Len(cookie) :
                  /\ StartsWithAt(low, "domain=", i)
                  /\ i + 7 <= Len(cookie)
                  /\ CharAt(cookie, i + 7) # ";" }
    IN  IF at = {} THEN cookie
        ELSE LET i == CHOOSE j \in at : \A k \in at : j <= k
                 e == FirstOf(cookie, {";"}, i + 7)
             IN  SubSeq(cookie, 1, i - 1) \o "domain=" \o PROXY_DOMAIN
                 \o SubSeq(cookie, e, Len(cookie))

\* the body of the forEach in handleSetCookieHeaders
RewriteCookie(cookie) ==
    LET withDomain ==
            IF includes(toLowerCase(cookie), "domain=") THEN ReplaceDomain(cookie)
            ELSE cookie \o "; Domain=" \o PROXY_DOMAIN
    IN  IF ~includes(toLowerCase(withDomain), "path=")
        THEN withDomain \o "; Path=/"
        ELSE withDomain

RECURSIVE AppendCookies(_, _)
AppendCookies(headers, cookies) ==
    IF cookies = <<>> THEN headers
    ELSE AppendCookies(HAppend(headers, "Set-Cookie", RewriteCookie(Head(cookies))),
                       Tail(cookies))

\* handleSetCookieHeaders(response): the new Headers object
handleSetCookieHeaders(resp) ==
    AppendCookies(HDelete(resp.headers, "Set-Cookie"), HGetAll(resp.headers, "Set-Cookie"))

ensureProtocol(url, defaultProtocol) ==
    IF startsWith(url, "http://") \/ startsWith(url, "https://") THEN url
    ELSE defaultProtocol \o "//" \o url

\* JSON.stringify of a string
RECURSIVE JsonEscape(_)
JsonEscape(s) ==
    IF s = "" THEN ""
    ELSE (IF Head(s) \in {"\"", "\\"} THEN "\\" \o Head(s) ELSE Head(s))
         \o JsonEscape(Tail(s))

\* JSON.stringify({ error: message })
JsonError(message) == "{\"error\":\"" \o JsonEscape(message) \o "\"}"

\* jsonResponse({ error: message }, status)
jsonResponse(message, status) ==
    [ status |-> status,
      statusText |-> "",
      headers |-> <<Hdr("Content-Type", "application/json; charset=utf-8")>>,
      bodyKind |-> "text",
      body |-> JsonError(message) ]

filterHeaders(headers) ==
    SelectSeq(headers, LAMBDA e : ~startsWith(toLowerCase(e.name), "cf-"))

setNoCacheHeaders(headers) == HSet(headers, "Cache-Control", "no-store")

setCorsHeaders(headers) ==
    HSet(HSet(HSet(headers, "Access-Control-Allow-Origin", "*"),
              "Access-Control-Allow-Methods", "GET, POST, PUT, DELETE"),
         "Access-Control-Allow-Headers", "*")

RedirectStatuses == {301, 302, 303, 307, 308}

NoReply == [status |-> 0, statusText |-> "", headers |-> <<>>, bodyKind |-> "none", body |-> ""]

\* the message of the TypeError new URL throws
InvalidUrl == "Invalid URL"

\* handleRedirect with the resolved Location put in the header as it is,
\* without encodeURIComponent
handleRedirect_NoEncode(resp) ==
    LET location == HGet(resp.headers, "location")
        locationUrl == ResolveUrl(location.v, ParseUrl(resp.url))
    IN  IF ~location.has \/ location.v = ""
        THEN [ ok |-> TRUE, message |-> "",
               reply |-> [ status |-> resp.status, statusText |-> resp.statusText,
                           headers |-> resp.headers,
                           bodyKind |-> "null", body |-> "" ] ]
        ELSE IF ~locationUrl.ok
        THEN [ ok |-> FALSE, message |-> InvalidUrl, reply |-> NoReply ]
        ELSE [ ok |-> TRUE, message |-> "",
               reply |-> [ status |-> resp.status, statusText |-> resp.statusText,
                           headers |-> HSet(resp.headers, "Location",
                                            "/" \o Href(locationUrl)),
                           bodyKind |-> "null", body |-> "" ] ]

\* handleRedirect(response): [ok, message, reply]; ok = FALSE when new URL
\* throws (the catch block repeats the same resolution and throws again)
handleRedirect(resp) ==
    LET location == HGet(resp.headers, "location")
        locationUrl == ResolveUrl(location.v, ParseUrl(resp.url))
    IN  IF ~location.has \/ location.v = ""
        THEN [ ok |-> TRUE, message |-> "",
               reply |-> [ status |-> resp.status, statusText |-> resp.statusText,
                           headers |-> resp.headers,
                           bodyKind |-> "null", body |-> "" ] ]
        ELSE IF ~locationUrl.ok
        THEN [ ok |-> FALSE, message |-> InvalidUrl, reply |-> NoReply ]
        ELSE [ ok |-> TRUE, message |-> "",
               reply |-> [ status |-> resp.status, statusText |-> resp.statusText,
                           headers |-> HSet(resp.headers, "Location",
                                            "/" \o encodeURIComponent(Href(locationUrl))),
                           bodyKind |-> "null", body |-> "" ] ]

Attrs == {"href", "src", "action"}
Quotes == {"\"", "'"}

AttrPrefixes == { a \o "=" \o q : a \in Attrs, q \in Quotes }

\* the text matched at i by ((href|src|action)=["']), "" when there is none
PrefixAt(s, i) ==
    LET hits == { p \in AttrPrefixes : StartsWithAt(s, p, i) }
    IN  IF hits = {} THEN "" ELSE CHOOSE p \in hits : TRUE

\* the second group of that match: the attribute name
AttrOf(p) == SubSeq(p, 1, Len(p) - 2)

\* the first replace without its lookahead (?!\/)
RECURSIVE ReplaceRootRelative_NoLookahead(_, _, _)
ReplaceRootRelative_NoLookahead(s, i, ins) ==
    IF i > Len(s) THEN ""
    ELSE LET p == PrefixAt(s, i)
             m == i + Len(p)
         IN  IF p # "" /\ StartsWithAt(s, "/", m)
             THEN p \o "/" \o ins \o "/" \o ReplaceRootRelative_NoLookahead(s, m + 1, ins)
             ELSE CharAt(s, i) \o ReplaceRootRelative_NoLookahead(s, i + 1, ins)

\* text.replace(/((href|src|action)=["'])\/(?!\/)/g, "$1/" + ins + "/"), from i
RECURSIVE ReplaceRootRelative(_, _, _)
ReplaceRootRelative(s, i, ins) ==
    IF i > Len(s) THEN ""
    ELSE LET p == PrefixAt(s, i)
             m == i + Len(p)
         IN  IF p # "" /\ StartsWithAt(s, "/", m) /\ ~StartsWithAt(s, "/", m + 1)
             THEN p \o "/" \o ins \o "/" \o ReplaceRootRelative(s, m + 1, ins)
             ELSE CharAt(s, i) \o ReplaceRootRelative(s, i + 1, ins)

\* the callback of the second replace: (match, p1, p2) => p1 + "/" +
\* encodeURIComponent("https://" + p2); p2 is the second group
ProtocolRelativeCallback(p1, p2, p3) ==
    p1 \o "/" \o encodeURIComponent("https://" \o p2)

\* text.replace(/((href|src|action)=["'])\/\/([^\/"']+)/g, callback), from i
RECURSIVE ReplaceProtocolRelative(_, _)
ReplaceProtocolRelative(s, i) ==
    IF i > Len(s) THEN ""
    ELSE LET p == PrefixAt(s, i)
             m == i + Len(p)
             e == FirstOf(s, {"/", "\"", "'"}, m + 2)
         IN  IF p # "" /\ StartsWithAt(s, "//", m) /\ e > m + 2
             THEN ProtocolRelativeCallback(p, AttrOf(p), SubSeq(s, m + 2, e - 1))
                  \o ReplaceProtocolRelative(s, e)
             ELSE CharAt(s, i) \o ReplaceProtocolRelative(s, i + 1)

\* handleHtmlContent, after the await of response.text()
handleHtmlContent(originalText, url) ==
    LET encodedOrigin == encodeURIComponent(Origin(ParseUrl(url)))
    IN  ReplaceProtocolRelative(ReplaceRootRelative(originalText, 1, encodedOrigin), 1)

getRootHtml == "<!DOCTYPE html>"

(***************************************************************************)
(* Inputs: the incoming requests and the origin's answers.                 *)
(***************************************************************************)
SeqsUpTo(S, n) == UNION { [1..k -> S] : k \in 0..n }

RECURSIVE Concat(_)
Concat(ss) == IF ss = <<>> THEN "" ELSE Head(ss) \o Concat(Tail(ss))

\* pathname of the incoming URL
Paths ==
    { "/",
      "/https%3A%2F%2Fa.com%2Fx",
      "/a.com/docs/",
      "/http%3A%2F%2Fi.pximg.net%2Fimg",
      "/https://i-cf.pximg.net/img",
      "/http%3A%2F%2Fconstructor%2F",
      "/%E0%A4%A",
      "/%2F" }

ClientHeaders ==
    << Hdr("Origin", "https://proxy.example"),
       Hdr("Referer", "https://proxy.example/"),
       Hdr("CF-Ray", "8a1"),
       Hdr("Accept", "*/*") >>

Requests ==
    { [ protocol |-> "https:", host |-> "proxy.example", pathname |-> p,
        search |-> "", method |-> "GET", headers |-> h ] :
        p \in Paths, h \in {<<>>, ClientHeaders} }
    \cup
    { [ protocol |-> "http:", host |-> "proxy.example", pathname |-> p,
        search |-> "?q=1", method |-> "POST", headers |-> ClientHeaders ] :
        p \in {"/a.com/docs/", "/i.pximg.net"} }

Cookies == {"sid=1", "t=2; Domain=a.com; Path=/x", "u=3; DOMAIN=a.com; Secure"}

\* pieces of markup an origin body is made of: root-relative in double and
\* in single quotes, protocol-relative, an attribute that is not rewritten,
\* and a protocol-relative value whose closing quote is missing
Fragments ==
    { "href=\"/x\" ",
      "action='/go' ",
      "src=\"//c.io/i\" ",
      "data=\"/z\" ",
      "src=\"//c.io " }

Bodies == { Concat(fs) : fs \in SeqsUpTo(Fragments, MaxFrags) }

ContentTypes == {None, Some("text/html; charset=utf-8"), Some("image/png")}

Locations ==
    {None, Some(""), Some("/login"), Some("next"), Some("https://b.com/y"), Some("https://")}

StatusTextOf(status) ==
    CASE status = 200 -> "OK"
      [] status = 404 -> "Not Found"
      [] status = 301 -> "Moved Permanently"
      [] status = 302 -> "Found"
      [] status = 303 -> "See Other"
      [] status = 307 -> "Temporary Redirect"
      [] status = 308 -> "Permanent Redirect"

RECURSIVE CookieHeaders(_)
CookieHeaders(cs) ==
    IF cs = <<>> THEN <<>> ELSE <<Hdr("Set-Cookie", Head(cs))>> \o CookieHeaders(Tail(cs))

\* an origin response to the request for url
OriginResponse(url, status, ct, loc, ownPolicy, cookies, body) ==
    [ status |-> status,
      statusText |-> StatusTextOf(status),
      url |-> url,
      headers |->
          (IF ct.has THEN <<Hdr("Content-Type", ct.v)>> ELSE <<>>)
          \o (IF loc.has THEN <<Hdr("Location", loc.v)>> ELSE <<>>)
          \o (IF ownPolicy
              THEN << Hdr("Cache-Control", "max-age=60"),
                      Hdr("Access-Control-Allow-Origin", "https://a.com") >>
              ELSE <<>>)
          \o CookieHeaders(cookies)
          \o <<Hdr("Content-Length", ToString(Len(body)))>>,
      body |-> body ]

\* what the origin may answer: redirects with every kind of Location, and
\* other responses that vary either the cookies or the body
OriginResponses(url) ==
    { OriginResponse(url, st, ct, loc, FALSE, cs, "") :
        st \in RedirectStatuses,
        ct \in {None, Some("text/html; charset=utf-8")},
        loc \in Locations,
        cs \in SeqsUpTo({"sid=1"}, MaxCookies) }
    \cup
    { OriginResponse(url, st, ct, None, own, cs, b) :
        st \in {200, 404}, ct \in ContentTypes, own \in BOOLEAN,
        cs \in SeqsUpTo(Cookies, MaxCookies), b \in {"", "href=\"/x\" "} }
    \cup
    { OriginResponse(url, st, ct, None, FALSE, <<>>, b) :
        st \in {200, 404}, ct \in ContentTypes, b \in Bodies }

\* messages of the errors a rejected fetch() or text() carries
NetworkErrors == {"Network connection lost.", "internal error"}

(***************************************************************************)
(* handleRequest as a state machine.                                       *)
(***************************************************************************)
VARIABLES
    request,             \* the incoming request (event.request)
    pc,                  \* "start", "fetching", "reading", "done"
    actualUrlStr,        \* local of handleRequest
    modifiedRequest,     \* the outgoing request
    fetchCount,          \* calls of fetch() so far
    response,            \* the origin response
    headersWithCookies,  \* local of handleRequest
    dispatch,            \* the branch that produced the reply
    reply,               \* what handleRequest returned
    error,               \* the exception caught, if any
    clientAborted        \* request.signal.aborted

vars == << request, pc, actualUrlStr, modifiedRequest, fetchCount, response,
           headersWithCookies, dispatch, reply, error, clientAborted >>

NoRequest == [url |-> "", method |-> "", headers |-> <<>>, hasBody |-> FALSE,
              redirect |-> "", signal |-> ""]
NoResponse == [status |-> 0, statusText |-> "", url |-> "", headers |-> <<>>, body |-> ""]
NoError == [thrown |-> FALSE, stage |-> "", message |-> ""]
Thrown(stage, message) == [thrown |-> TRUE, stage |-> stage, message |-> message]

Init ==
    /\ request \in Requests
    /\ pc = "start"
    /\ actualUrlStr = ""
    /\ modifiedRequest = NoRequest
    /\ fetchCount = 0
    /\ response = NoResponse
    /\ headersWithCookies = <<>>
    /\ dispatch = "none"
    /\ reply = NoReply
    /\ error = NoError
    /\ clientAborted = FALSE

\* url.pathname.slice(1), decoded
Decoded(req) == decodeURIComponent(slice(req.pathname, 1))

\* actualUrlStr after ensureProtocol
TargetStr(req) == ensureProtocol(Decoded(req).value, req.protocol)

\* new Request(actualUrlStr, {headers, method, body, redirect: 'manual'}): no
\* signal is passed, so the request has a signal of its own
NewRequest(req, url) ==
    [ url |-> Href(ParseUrl(url)),
      method |-> req.method,
      headers |-> filterHeaders(req.headers),
      hasBody |-> ~(req.method = "GET" \/ req.method = "HEAD"),
      redirect |-> "manual",
      signal |-> "own" ]

\* a catch that answers 502 Bad Gateway
catchHandler_BadGateway(message) == jsonResponse(message, 502)

\* the catch of handleRequest
catchHandler(message) == jsonResponse(message, 500)

\* the catch around decodeURIComponent
decodeCatch == jsonResponse("Invalid URL encoding.", 400)

Return(r, branch) ==
    /\ reply' = r
    /\ dispatch' = branch
    /\ pc' = "done"

\* the root path: the landing page
ServeRoot ==
    /\ pc = "start"
    /\ request.pathname = "/"
    /\ Return([ status |-> 200, statusText |-> "",
                headers |-> <<Hdr("Content-Type", "text/html; charset=utf-8")>>,
                bodyKind |-> "text", body |-> getRootHtml ], "root")
    /\ UNCHANGED << request, actualUrlStr, modifiedRequest, fetchCount, response,
                    headersWithCookies, error, clientAborted >>

\* decodeURIComponent throws
RejectEncoding ==
    /\ pc = "start"
    /\ request.pathname # "/"
    /\ ~Decoded(request).ok
    /\ error' = Thrown("decode", "URI malformed")
    /\ Return(decodeCatch, "error")
    /\ UNCHANGED << request, actualUrlStr, modifiedRequest, fetchCount, response,
                    headersWithCookies, clientAborted >>

\* new URL(actualUrlStr) or new Request(...) throws
RejectTarget ==
    /\ pc = "start"
    /\ request.pathname # "/"
    /\ Decoded(request).ok
    /\ \/ ~ParseUrl(TargetStr(request)).ok
       \/ ~ParseUrl(TargetStr(request) \o request.search).ok
    /\ error' = Thrown("target", InvalidUrl)
    /\ Return(catchHandler(InvalidUrl), "error")
    /\ UNCHANGED << request, actualUrlStr, modifiedRequest, fetchCount, response,
                    headersWithCookies, clientAborted >>

\* the outgoing request is built and fetch() is called
SendFetch ==
    /\ pc = "start"
    /\ request.pathname # "/"
    /\ Decoded(request).ok
    /\ ParseUrl(TargetStr(request)).ok
    /\ ParseUrl(TargetStr(request) \o request.search).ok
    /\ actualUrlStr' = TargetStr(request) \o request.search
    /\ modifiedRequest' = handleSpecialCases(NewRequest(request, actualUrlStr'))
    /\ fetchCount' = fetchCount + 1
    /\ pc' = "fetching"
    /\ UNCHANGED << request, response, headersWithCookies, dispatch, reply, error,
                    clientAborted >>

\* the client goes away while handleRequest awaits
ClientDisconnect ==
    /\ pc \in {"fetching", "reading"}
    /\ ~clientAborted
    /\ clientAborted' = TRUE
    /\ UNCHANGED << request, pc, actualUrlStr, modifiedRequest, fetchCount, response,
                    headersWithCookies, dispatch, reply, error >>

\* a rejected fetch() that is tried again
FetchRejected_Retry ==
    /\ pc = "fetching"
    /\ fetchCount < 3
    /\ fetchCount' = fetchCount + 1
    /\ UNCHANGED << request, pc, actualUrlStr, modifiedRequest, response,
                    headersWithCookies, dispatch, reply, error, clientAborted >>

\* fetch() rejects
FetchRejected ==
    /\ pc = "fetching"
    /\ \E m \in NetworkErrors :
          /\ error' = Thrown("fetch", m)
          /\ Return(catchHandler(m), "error")
    /\ UNCHANGED << request, actualUrlStr, modifiedRequest, fetchCount, response,
                    headersWithCookies, clientAborted >>

IsRedirect(resp) == resp.status \in RedirectStatuses

IsHtml(resp) ==
    LET ct == HGet(resp.headers, "Content-Type")
    IN  ct.has /\ includes(ct.v, "text/html")

\* the branches with the content type tested before the status
Dispatch_HtmlFirst(resp) ==
    IF IsHtml(resp) THEN "html"
    ELSE IF IsRedirect(resp) THEN "redirect"
    ELSE "passthrough"

\* the if / else if / else on the origin response
Dispatch(resp) ==
    IF IsRedirect(resp) THEN "redirect"
    ELSE IF IsHtml(resp) THEN "html"
    ELSE "passthrough"

\* new Response(body, {status, statusText, headers}) followed by
\* setNoCacheHeaders and setCorsHeaders
Finalize(resp, headers, bodyKind, body) ==
    [ status |-> resp.status,
      statusText |-> resp.statusText,
      headers |-> setCorsHeaders(setNoCacheHeaders(headers)),
      bodyKind |-> bodyKind,
      body |-> body ]

\* fetch() resolves with a redirect: return handleRedirect(response)
ReceiveRedirect ==
    /\ pc = "fetching"
    /\ \E r \in OriginResponses(modifiedRequest.url) :
          /\ Dispatch(r) = "redirect"
          /\ response' = r
          /\ headersWithCookies' = handleSetCookieHeaders(r)
          /\ LET hr == handleRedirect(r)
             IN  IF hr.ok
                 THEN /\ Return(hr.reply, "redirect")
                      /\ error' = error
                 ELSE /\ Return(catchHandler(hr.message), "error")
                      /\ error' = Thrown("redirect", hr.message)
    /\ UNCHANGED << request, actualUrlStr, modifiedRequest, fetchCount, clientAborted >>

\* fetch() resolves with text/html: response.text() is awaited
ReceiveHtml ==
    /\ pc = "fetching"
    /\ \E r \in OriginResponses(modifiedRequest.url) :
          /\ Dispatch(r) = "html"
          /\ response' = r
          /\ headersWithCookies' = handleSetCookieHeaders(r)
    /\ pc' = "reading"
    /\ UNCHANGED << request, actualUrlStr, modifiedRequest, fetchCount, dispatch, reply,
                    error, clientAborted >>

\* fetch() resolves with anything else: the body is passed on as it is
ReceiveOther ==
    /\ pc = "fetching"
    /\ \E r \in OriginResponses(modifiedRequest.url) :
          /\ Dispatch(r) = "passthrough"
          /\ response' = r
          /\ headersWithCookies' = handleSetCookieHeaders(r)
          /\ Return(Finalize(r, headersWithCookies', "stream", r.body), "passthrough")
    /\ UNCHANGED << request, actualUrlStr, modifiedRequest, fetchCount, error,
                    clientAborted >>

\* response.text() resolves: the body is rewritten and returned
ReadText ==
    /\ pc = "reading"
    /\ LET body == handleHtmlContent(response.body, actualUrlStr)
       IN  Return(Finalize(response,
                           HSet(headersWithCookies, "Content-Length", ToString(Len(body))),
                           "text", body),
                  "html")
    /\ UNCHANGED << request, actualUrlStr, modifiedRequest, fetchCount, response,
                    headersWithCookies, error, clientAborted >>

\* response.text() rejects
ReadTextFailed ==
    /\ pc = "reading"
    /\ \E m \in NetworkErrors :
          /\ error' = Thrown("body", m)
          /\ Return(catchHandler(m), "error")
    /\ UNCHANGED << request, actualUrlStr, modifiedRequest, fetchCount, response,
                    headersWithCookies, clientAborted >>

Next ==
    \/ ServeRoot
    \/ RejectEncoding
    \/ RejectTarget
    \/ SendFetch
    \/ ClientDisconnect
    \/ FetchRejected
    \/ ReceiveRedirect
    \/ ReceiveHtml
    \/ ReceiveOther
    \/ ReadText
    \/ ReadTextFailed

Spec == Init /\ [][Next]_vars

(***************************************************************************)
(* Properties.                                                             *)
(***************************************************************************)
Done == pc = "done"

\* handleRequest returned a response made from the origin's
Success == Done /\ dispatch \in {"redirect", "html", "passthrough"}

\* C1: every successful response, on the redirect, the HTML and the
\* passthrough path alike, carries Cache-Control: no-store and the three CORS
\* headers, whatever the origin sent under those names.
C1_PolicyHeadersOnEverySuccess ==
    Success =>
        /\ HGet(reply.headers, "Cache-Control") = Some("no-store")
        /\ HGet(reply.headers, "Access-Control-Allow-Origin") = Some("*")
        /\ HGet(reply.headers, "Access-Control-Allow-Methods") = Some("GET, POST, PUT, DELETE")
        /\ HGet(reply.headers, "Access-Control-Allow-Headers") = Some("*")

\* C2: on every successful response the client gets as many Set-Cookie
\* headers as the origin sent, and each of them has a Domain attribute set to
\* the proxy's domain and a Path attribute.
C2_CookiesRewrittenOnEverySuccess ==
    Success =>
        LET sent == HGetAll(response.headers, "Set-Cookie")
            got == HGetAll(reply.headers, "Set-Cookie")
        IN  /\ Len(got) = Len(sent)
            /\ \A i \in 1..Len(got) :
                  /\ includes(toLowerCase(got[i]), "domain=" \o PROXY_DOMAIN)
                  /\ includes(toLowerCase(got[i]), "path=")

PixivHosts == {"i.pximg.net", "i-cf.pximg.net"}

\* C3: the outgoing request never has an Origin header; its Referer is
\* https://www.pixiv.net/ for the two pximg hosts and absent for every other
\* host name.
C3_OutgoingOriginAndReferer ==
    fetchCount > 0 =>
        /\ ~HHas(modifiedRequest.headers, "Origin")
        /\ IF ParseUrl(modifiedRequest.url).hostname \in PixivHosts
           THEN HGet(modifiedRequest.headers, "Referer") = Some("https://www.pixiv.net/")
           ELSE ~HHas(modifiedRequest.headers, "Referer")

\* the places of text where (href|src|action)=(" or ')// and a host begin
ProtocolRelativeAt(text, i) ==
    LET p == PrefixAt(text, i)
    IN  /\ p # ""
        /\ StartsWithAt(text, "//", i + Len(p))
        /\ FirstOf(text, {"/", "\"", "'"}, i + Len(p) + 2) > i + Len(p) + 2

\* the host of the protocol-relative occurrence at i
HostAt(text, i) ==
    LET m == i + Len(PrefixAt(text, i))
    IN  SubSeq(text, m + 2, FirstOf(text, {"/", "\"", "'"}, m + 2) - 1)

\* C4: every protocol-relative occurrence attr=(quote)//HOST of an HTML body
\* comes out as attr=(quote)/ followed by percent-encode(https://HOST).
C4_ProtocolRelativeRewrittenToHost ==
    (Done /\ dispatch = "html") =>
        \A i \in 1..Len(response.body) :
            ProtocolRelativeAt(response.body, i) =>
                includes(reply.body,
                         PrefixAt(response.body, i) \o "/"
                         \o encodeURIComponent("https://" \o HostAt(response.body, i)))

RedirectAnswered == Done /\ response # NoResponse /\ response.status \in RedirectStatuses

\* what the claim expects of the reply to a redirect whose Location is loc
RedirectReplyAsClaimed(loc) ==
    /\ reply.status = response.status
    /\ reply.statusText = response.statusText
    /\ reply.bodyKind = "null"
    /\ HGet(reply.headers, "Location")
         = Some("/" \o encodeURIComponent(Href(ResolveUrl(loc, ParseUrl(response.url)))))
    /\ (response.url = "https://a.com/x" /\ loc = "/login")
         => HGet(reply.headers, "Location") = Some("/https%3A%2F%2Fa.com%2Flogin")

\* C5, as stated: a redirect response that has a Location header is answered
\* with the same status and status text, no body, and Location = "/" +
\* percent-encode(Location resolved against the origin response's URL).
C5_RedirectLocationRewritten ==
    (RedirectAnswered /\ HHas(response.headers, "Location")) =>
        RedirectReplyAsClaimed(HGet(response.headers, "Location").v)

\* C5, amended: the same, for a Location that is not empty and that resolves
\* to a URL.
C5_RedirectNonEmptyLocationRewritten ==
    LET loc == HGet(response.headers, "Location")
    IN  ( /\ RedirectAnswered
          /\ loc.has
          /\ loc.v # ""
          /\ ResolveUrl(loc.v, ParseUrl(response.url)).ok )
        => RedirectReplyAsClaimed(loc.v)

C5_Witness ==
    /\ Done
    /\ dispatch = "redirect"
    /\ response.status = 302
    /\ response.url = "https://a.com/x"
    /\ HGet(response.headers, "Location") = Some("/login")
    /\ HGet(reply.headers, "Location") = Some("/https%3A%2F%2Fa.com%2Flogin")

\* the places of text where (href|src|action)=(" or ')/ begins and the next
\* character is not another slash
RootRelativeAt(text, i) ==
    LET p == PrefixAt(text, i)
    IN  /\ p # ""
        /\ StartsWithAt(text, "/", i + Len(p))
        /\ ~StartsWithAt(text, "/", i + Len(p) + 1)

\* where the host of the protocol-relative occurrence at i ends
HostEnd(text, i) == FirstOf(text, {"/", "\"", "'"}, i + Len(PrefixAt(text, i)) + 2)

\* the places where the protocol-relative substitution matches: the
\* occurrences met from left to right, each search going on where the last
\* match ended
RECURSIVE ProtocolRelativeMatches(_, _)
ProtocolRelativeMatches(text, i) ==
    IF i > Len(text) THEN {}
    ELSE IF ProtocolRelativeAt(text, i)
    THEN {i} \cup ProtocolRelativeMatches(text, HostEnd(text, i))
    ELSE ProtocolRelativeMatches(text, i + 1)

\* the attribute name of the occurrence at i lies inside the host that a
\* protocol-relative match beginning before it captures
Swallowed(text, i) ==
    \E j \in ProtocolRelativeMatches(text, 1) : j < i /\ HostEnd(text, j) > i

EncodedTargetOrigin == encodeURIComponent(Origin(ParseUrl(actualUrlStr)))

\* C6, as stated: every root-relative occurrence attr=(quote)/ comes out as
\* attr=(quote)/ + percent-encode(target origin) + "/", and the later
\* protocol-relative substitution never touches what this one produced.
C6_RootRelativeRewritten ==
    (Done /\ dispatch = "html") =>
        \A p \in AttrPrefixes :
            CountOcc(reply.body, p \o "/" \o EncodedTargetOrigin \o "/")
              = Cardinality({ i \in 1..Len(response.body) :
                                RootRelativeAt(response.body, i)
                                /\ PrefixAt(response.body, i) = p })

\* C6, amended: the quote, the slash and the inserted origin of every
\* root-relative occurrence are in the output untouched; so are its attribute
\* name and "=", unless they lie inside the host that an earlier
\* protocol-relative match, its value lacking a closing quote, captures.
C6_RootRelativeInsertionKept ==
    (Done /\ dispatch = "html") =>
        /\ \A q \in Quotes :
              CountOcc(reply.body, q \o "/" \o EncodedTargetOrigin \o "/")
                = Cardinality({ i \in 1..Len(response.body) :
                                  /\ RootRelativeAt(response.body, i)
                                  /\ PrefixAt(response.body, i) \in { a \o "=" \o q : a \in Attrs } })
        /\ \A p \in AttrPrefixes :
              CountOcc(reply.body, p \o "/" \o EncodedTargetOrigin \o "/")
                = Cardinality({ i \in 1..Len(response.body) :
                                  /\ RootRelativeAt(response.body, i)
                                  /\ PrefixAt(response.body, i) = p
                                  /\ ~Swallowed(response.body, i) })
        /\ (response.body = "href=\"/x\" " /\ actualUrlStr = "https://a.com/x")
              => reply.body = "href=\"/https%3A%2F%2Fa.com/x\" "

C6_Witness ==
    /\ Done
    /\ dispatch = "html"
    /\ actualUrlStr = "https://a.com/x"
    /\ response.body = "href=\"/x\" src=\"//c.io/i\" "
    /\ includes(reply.body, "href=\"/https%3A%2F%2Fa.com/x\" ")

JsonContentType == Some("application/json; charset=utf-8")

\* C7: off the root path, a path that does not decode is answered 400 with
\* {"error":"Invalid URL encoding."}; a failure of any later stage is
\* answered 500 with the error's message; both are JSON and nothing of the
\* origin's response is in them; the pipeline stops at the failure.
C7_FailuresAnsweredInJson ==
    /\ error.thrown => Done
    /\ (Done /\ request.pathname # "/") =>
          /\ ~Decoded(request).ok =>
                /\ reply.status = 400
                /\ reply.body = "{\"error\":\"Invalid URL encoding.\"}"
          /\ (error.thrown /\ error.stage # "decode") =>
                /\ reply.status = 500
                /\ reply.body = "{\"error\":\"" \o error.message \o "\"}"
          /\ (error.thrown \/ ~Decoded(request).ok \/ ~ParseUrl(TargetStr(request)).ok) =>
                /\ reply.status \in {400, 500}
                /\ reply.headers = <<Hdr("Content-Type", JsonContentType.v)>>
                /\ HGet(reply.headers, "Content-Type") = JsonContentType
                /\ reply.bodyKind = "text"

C7_Witness ==
    /\ Done
    /\ error.thrown
    /\ error.stage = "redirect"
    /\ response.status = 301
    /\ reply.status = 500
    /\ reply.body = "{\"error\":\"Invalid URL\"}"

\* C8: a response that is neither a redirect nor text/html is passed on with
\* the origin's status, status text, body and Content-Length; a redirect
\* status goes before a text/html content type, so the body of a redirect is
\* never rewritten.
C8_PassthroughUnmodified ==
    (Done /\ ~error.thrown /\ response # NoResponse) =>
        LET ct == HGet(response.headers, "Content-Type")
            redirect == response.status \in {301, 302, 303, 307, 308}
            html == ct.has /\ includes(ct.v, "text/html")
        IN  /\ (~redirect /\ ~html) =>
                  /\ reply.status = response.status
                  /\ reply.statusText = response.statusText
                  /\ reply.bodyKind = "stream"
                  /\ reply.body = response.body
                  /\ HGet(reply.headers, "Content-Length")
                       = HGet(response.headers, "Content-Length")
            /\ redirect =>
                  /\ dispatch = "redirect"
                  /\ reply.bodyKind = "null"
                  /\ reply.body = ""

C8_Witness ==
    /\ Done
    /\ dispatch = "passthrough"
    /\ HGet(response.headers, "Content-Type") = Some("image/png")
    /\ response.body = "href=\"/x\" src=\"//c.io/i\" "
    /\ reply.body = response.body

\* C9: once the client has gone away while the fetch is in flight, the
\* outgoing request is aborted: its signal is the incoming request's.
C9_CancelReachesOutgoingRequest ==
    (pc = "fetching" /\ clientAborted) => modifiedRequest.signal = "incoming"

\* C10: fetch() is called at most once: once when the path decodes and the
\* target URL parses, never for the root path, a 400 or an unparsable target;
\* a rejected fetch goes straight to the 500 reply; redirects are not followed.
C10_SingleFetch ==
    /\ fetchCount <= 1
    /\ pc \in {"fetching", "reading"} => fetchCount = 1
    /\ fetchCount = 1 => modifiedRequest.redirect = "manual"
    /\ Done =>
          fetchCount = IF /\ request.pathname # "/"
                          /\ Decoded(request).ok
                          /\ ParseUrl(TargetStr(request)).ok
                       THEN 1 ELSE 0
    /\ (error.thrown /\ error.stage = "fetch") =>
          /\ Done
          /\ fetchCount = 1
          /\ reply.status = 500
    /\ RedirectAnswered => fetchCount = 1

C10_Witness ==
    /\ Done
    /\ error.thrown
    /\ error.stage = "fetch"
    /\ fetchCount = 1
    /\ reply.status = 500

====
